---- MODULE Spec2Model ----
(***************************************************************************)
(* Workflow execution tracker (components/generative/WorkflowExecutor.tsx) *)
(* as a state machine: one mounted component instance, its React state,   *)
(* the polling effect with its interval timer, the status GETs and the    *)
(* cancel/retry POSTs that are in flight.  A render and the effect run     *)
(* that follows it are part of the step that changed the state.  The      *)
(* execution service is the environment: the answer to a request is any   *)
(* status, a non-2xx response or a rejected request.                      *)
(***************************************************************************)
EXTENDS Integers, Sequences, FiniteSets, TLC

\* ---- bounds -------------------------------------------------------------
MaxInflight == 2        \* status GETs in flight at the same time
MaxCmds == 1            \* cancel/retry POSTs in flight at the same time
MaxTimers == 2          \* interval timers alive at the same time
NumSteps == 2           \* steps shown in the step list
MaxIdChanges == 1       \* changes of the workflowId prop in one run
NumWorkflows == 2       \* workflows the execution service knows
MaxLoads == 2           \* list GETs in flight at the same time
MaxDeletes == 1         \* DELETEs in flight at the same time
MaxLibCmds == 1         \* cancel/retry POSTs of the library in flight
MaxViewSteps == 2       \* steps of a displayed workflow
MaxRequests == 2        \* API requests handled at the same time
NumItems == 2           \* items stored in a collection

\* ---- vocabulary ---------------------------------------------------------
Null == "null"
NoStep == -1                                      \* expandedStep is null
NoReport == ""          \* reportId absent, null or empty
NoStatus == [workflowId |-> "", status |-> "null", reportId |-> NoReport]  \* workflowStatus is null
NoId == ""
WfIds == {"wf_1", "wf_2"}
Statuses == {"pending", "running", "completed", "failed"}
Terminal == {"completed", "failed"}
HttpError == "Failed to fetch status"
NetworkError == "Failed to fetch"
Outcomes == {"ok", "non2xx", "rejected"}
StepIndexes == 0 .. (NumSteps - 1)

VARIABLES
    mounted,          \* the component instance is mounted
    isStreaming,      \* !streamStatus.isSuccess && !streamStatus.isError
    workflowId,       \* the workflowId prop
    workflowStatus,   \* useState: cached WorkflowStatus or NoStatus
    expandedStep,     \* useState: expanded step index or NoStep
    polling,          \* useState: polling flag
    error,            \* useState: error message or Null
    intervalRef,      \* useRef: handle of the last timer created, 0 = null
    timers,           \* interval timers that are alive: [id, wf]
    inflight,         \* status GETs in flight, in issue order: [wf, overtaken]
    posts,            \* cancel/retry POSTs in flight: [kind, wf]
    idChanges,        \* changes of the workflowId prop so far
    lastOp,           \* history: the operation that produced this state
    lastGets,         \* history: status/list GETs issued by that operation
    lastOutcome       \* history: outcome of the request that operation resolved

\* WorkflowLibrary (components/interactable/WorkflowLibrary.tsx)
VARIABLES
    workflows,        \* useTamboComponentState: the cached list, id -> status
    loading,          \* useState: loading flag
    hasLoadedRef,     \* useRef: a load has succeeded
    isLoadingRef,     \* useRef: a load is outstanding
    listGets,         \* list GETs in flight
    deletes,          \* DELETEs in flight: [id, captured]
    libPosts          \* cancel/retry POSTs of the library in flight: [kind, id]

\* the progress header of the executor and of the library's active cards
VARIABLES
    payload,          \* a status payload: [currentStep, totalSteps, steps]
    initialSteps,     \* the steps prop of WorkflowExecutor
    shown             \* what the headers show for it, or NoView

\* the API routes: the stored rows and the requests being handled
VARIABLES
    collections,      \* prisma.collection: id -> row
    events,           \* prisma.calendarEvent: id -> row
    requests          \* slot -> the request handled there and where it stands

execVars == <<mounted, isStreaming, workflowId, workflowStatus, expandedStep,
              polling, error, intervalRef, timers, inflight, posts, idChanges>>

histVars == <<lastOp, lastGets, lastOutcome>>

libVars == <<workflows, loading, hasLoadedRef, isLoadingRef, listGets,
             deletes, libPosts>>

viewVars == <<payload, initialSteps, shown>>

apiVars == <<collections, events, requests>>

vars == <<mounted, isStreaming, workflowId, workflowStatus, expandedStep,
          polling, error, intervalRef, timers, inflight, posts, idChanges,
          lastOp, lastGets, lastOutcome,
          workflows, loading, hasLoadedRef, isLoadingRef, listGets, deletes,
          libPosts, payload, initialSteps, shown,
          collections, events, requests>>

\* ---- parts of the program a specification leaves at rest -----------------
NoView == [execStep |-> -1, execTotal |-> -1, libStep |-> -1, libTotal |-> -1,
           libProgress |-> -1]

\* no status payload yet; steps is absent or an array
NoPayload ==
    [currentStep |-> 0, totalSteps |-> 0, steps |-> [present |-> FALSE, list |-> <<>>]]

\* ---- API vocabulary ---------------------------------------------------------
Undefined == "undefined"   \* a field the JSON body does not have
NoUser == "anonymous"      \* supabase.auth.getUser() gave no user
Users == {"u1", "u2"}
CollIds == {"c1", "c2"}
EventIds == {"e1", "e2"}
ItemIds == 1 .. NumItems
Slots == 1 .. MaxRequests

NoCollection == [present |-> FALSE, userId |-> NoUser, name |-> "", items |-> <<>>]
NoEvent == [present |-> FALSE, userId |-> NoUser, title |-> "", completed |-> "false"]

NoBody == [valid |-> TRUE, name |-> Undefined, title |-> Undefined,
           completed |-> Undefined]
BadJson == [valid |-> FALSE, name |-> Undefined, title |-> Undefined,
            completed |-> Undefined]

IdleRequest ==
    [kind |-> "none", user |-> NoUser, id |-> "", itemId |-> 0, body |-> NoBody,
     pc |-> "idle", items |-> <<>>, resp |-> 0]

\* u1 owns collection c1 with all the items and event e1; c2 and e2 do not exist
StoredAtStart ==
    /\ collections =
          [c \in CollIds |->
             IF c = "c1"
                THEN [present |-> TRUE, userId |-> "u1", name |-> "a",
                      items |-> [k \in ItemIds |-> k]]
                ELSE NoCollection]
    /\ events =
          [e \in EventIds |->
             IF e = "e1"
                THEN [present |-> TRUE, userId |-> "u1", title |-> "t",
                      completed |-> "false"]
                ELSE NoEvent]

ApiIdle ==
    /\ StoredAtStart
    /\ requests = [r \in Slots |-> IdleRequest]

ExecIdle ==
    /\ mounted = TRUE
    /\ isStreaming = TRUE
    /\ workflowId = NoId
    /\ workflowStatus = NoStatus
    /\ expandedStep = NoStep
    /\ polling = TRUE
    /\ error = Null
    /\ intervalRef = 0
    /\ timers = {}
    /\ inflight = <<>>
    /\ posts = <<>>
    /\ idChanges = 0

LibIdle ==
    /\ workflows = <<>>
    /\ loading = FALSE
    /\ hasLoadedRef = FALSE
    /\ isLoadingRef = FALSE
    /\ listGets = 0
    /\ deletes = <<>>
    /\ libPosts = <<>>

ViewIdle ==
    /\ payload = NoPayload
    /\ initialSteps = <<>>
    /\ shown = NoView

\* ---- helpers ------------------------------------------------------------
RemoveAt(s, i) == SubSeq(s, 1, i - 1) \o SubSeq(s, i + 1, Len(s))

\* a status GET issued by fetchStatus of the render whose workflowId is w
NewFetch(w) == [wf |-> w, overtaken |-> FALSE]

\* the payload of a 2xx status response for workflow w
Payload(w, s, r) == [workflowId |-> w, status |-> s, reportId |-> r]

\* const status = workflowStatus?.status || 'pending'
status == IF workflowStatus = NoStatus THEN "pending" ELSE workflowStatus.status

\* reportId?: string | null of a status payload
ReportIds == {NoReport, "r_9"}

\* the three render branches
StreamingView == isStreaming
ErrorView == ~isStreaming /\ error # Null /\ workflowStatus = NoStatus
MainView == ~isStreaming /\ ~ErrorView

ReportReady_IgnoresReportId == MainView /\ status = "completed"

\* footer: status === 'completed' && workflowStatus?.reportId
ReportReady ==
    MainView /\ status = "completed" /\ workflowStatus.reportId # NoReport

\* ---- React state setters: an update of an unmounted instance is dropped --
setWorkflowStatus_AfterUnmount(v) == workflowStatus' = v

setWorkflowStatus(v) == workflowStatus' = IF mounted THEN v ELSE workflowStatus

setPolling(v) == polling' = IF mounted THEN v ELSE polling

setError(v) == error' = IF mounted THEN v ELSE error

setExpandedStep(v) == expandedStep' = IF mounted THEN v ELSE expandedStep

\* ---- the polling effect ---------------------------------------------------
\* the previous effect run returned its cleanup (it did not return early)
EffectRegistered == ~isStreaming /\ workflowId # NoId

\* dependency list [isStreaming, workflowId, polling, fetchStatus];
\* fetchStatus changes exactly when workflowId does
DepsChanged ==
    \/ isStreaming' # isStreaming
    \/ workflowId' # workflowId
    \/ polling' # polling

Cleanup_NoClear(ts) == ts

\* return () => { if (intervalRef.current) clearInterval(intervalRef.current) }
Cleanup(ts) ==
    IF EffectRegistered THEN {t \in ts : t.id # intervalRef} ELSE ts

\* setInterval returns a handle no live timer has
FreshHandle(ts) ==
    CHOOSE n \in 1 .. (MaxTimers + 1) : \A t \in ts : t.id # n

EffectBody_NoIdCheck == ~isStreaming'

\* the effect body runs: not streaming and a workflow id is there
EffectBody == ~isStreaming' /\ workflowId' # NoId

\* Render after the state change of this step, then the effect.  base is the
\* in-flight list the handler left, direct the GETs the handler issued itself.
Rerender(base, direct) ==
    LET run == mounted' /\ DepsChanged
        body == run /\ EffectBody
        cleaned == IF run THEN Cleanup(timers) ELSE timers
        effGets == IF body THEN <<NewFetch(workflowId')>> ELSE <<>>
        startTimer == body /\ polling'
        h == FreshHandle(cleaned)
    IN  /\ inflight' = base \o direct \o effGets
        /\ Len(inflight') <= MaxInflight
        /\ timers' = IF startTimer
                        THEN cleaned \cup {[id |-> h, wf |-> workflowId']}
                        ELSE cleaned
        /\ Cardinality(timers') <= MaxTimers
        /\ intervalRef' = IF startTimer THEN h ELSE intervalRef
        /\ lastGets' = Len(direct) + Len(effGets)

\* ---- initial state: first render, while the response still streams ------
Init ==
    /\ mounted = TRUE
    /\ isStreaming = TRUE
    /\ workflowId \in WfIds \cup {NoId}
    /\ workflowStatus = NoStatus
    /\ expandedStep = NoStep
    /\ polling = TRUE
    /\ error = Null
    /\ intervalRef = 0
    /\ timers = {}
    /\ inflight = <<>>
    /\ posts = <<>>
    /\ idChanges = 0
    /\ lastOp = "init"
    /\ lastGets = 0
    /\ lastOutcome = Null
    /\ LibIdle
    /\ ViewIdle
    /\ ApiIdle

\* ---- environment: the stream status and the props -----------------------
\* useTamboStreamStatus reports another value of isStreaming
SetStreaming ==
    /\ mounted
    /\ isStreaming' = ~isStreaming
    /\ UNCHANGED <<idChanges, mounted, workflowId, workflowStatus,
                   expandedStep, polling, error, posts>>
    /\ Rerender(inflight, <<>>)
    /\ lastOp' = "setStreaming"
    /\ lastOutcome' = Null
    /\ UNCHANGED <<libVars, viewVars, apiVars>>

\* the workflowId prop changes
SetWorkflowId ==
    /\ mounted
    /\ idChanges < MaxIdChanges
    /\ idChanges' = idChanges + 1
    /\ \E w \in (WfIds \cup {NoId}) \ {workflowId} : workflowId' = w
    /\ UNCHANGED <<mounted, isStreaming, workflowStatus, expandedStep, polling,
                   error, posts>>
    /\ Rerender(inflight, <<>>)
    /\ lastOp' = "setWorkflowId"
    /\ lastOutcome' = Null
    /\ UNCHANGED <<libVars, viewVars, apiVars>>

\* the component is torn down: the cleanup of the last effect run
Unmount ==
    /\ mounted
    /\ mounted' = FALSE
    /\ timers' = Cleanup(timers)
    /\ UNCHANGED <<idChanges, isStreaming, workflowId, workflowStatus,
                   expandedStep, polling, error, intervalRef, inflight, posts>>
    /\ lastOp' = "unmount"
    /\ lastGets' = 0
    /\ lastOutcome' = Null
    /\ UNCHANGED <<libVars, viewVars, apiVars>>

\* ---- the interval timer ---------------------------------------------------
\* setInterval(fetchStatus, 2500): one tick of a live timer
TimerTick ==
    /\ \E t \in timers :
          /\ Len(inflight) < MaxInflight
          /\ inflight' = Append(inflight, NewFetch(t.wf))
    /\ UNCHANGED <<idChanges, mounted, isStreaming, workflowId, workflowStatus,
                   expandedStep, polling, error, intervalRef, timers, posts>>
    /\ lastOp' = "timerTick"
    /\ lastGets' = 1
    /\ lastOutcome' = Null
    /\ UNCHANGED <<libVars, viewVars, apiVars>>

\* ---- fetchStatus: the response of a status GET arrives -------------------
\* the in-flight list once GET i has resolved; a 2xx response overtakes the
\* GETs of the same workflow that were issued before it and are still out
AfterResolve(i, ok) ==
    LET f == inflight[i]
        marked == [j \in 1 .. Len(inflight) |->
                     IF ok /\ j < i /\ inflight[j].wf = f.wf
                        THEN [inflight[j] EXCEPT !.overtaken = TRUE]
                        ELSE inflight[j]]
    IN  RemoveAt(marked, i)

\* response.ok: setWorkflowStatus(data); setError(null);
\* setPolling(false) when data.status is completed or failed
FetchStatusOk(i, s) ==
    /\ i \in 1 .. Len(inflight)
    /\ s \in Statuses
    /\ \E r \in ReportIds : setWorkflowStatus(Payload(inflight[i].wf, s, r))
    /\ setError(Null)
    /\ IF s \in Terminal THEN setPolling(FALSE) ELSE polling' = polling
    /\ UNCHANGED <<idChanges, mounted, isStreaming, workflowId, expandedStep, posts>>
    /\ Rerender(AfterResolve(i, TRUE), <<>>)
    /\ lastOp' = "fetchStatusOk"
    /\ lastOutcome' = "ok"
    /\ UNCHANGED <<libVars, viewVars, apiVars>>

FetchStatusFailed_ClearsStatus(i, o) ==
    /\ i \in 1 .. Len(inflight)
    /\ o \in {"non2xx", "rejected"}
    /\ setError(IF o = "non2xx" THEN HttpError ELSE NetworkError)
    /\ setWorkflowStatus(NoStatus)
    /\ UNCHANGED <<idChanges, mounted, isStreaming, workflowId,
                   expandedStep, polling, posts>>
    /\ Rerender(AfterResolve(i, FALSE), <<>>)
    /\ lastOp' = "fetchStatusFailed"
    /\ lastOutcome' = o
    /\ UNCHANGED <<libVars, viewVars, apiVars>>

\* !response.ok throws, a rejected fetch throws: catch (err) setError(err.message)
FetchStatusFailed(i, o) ==
    /\ i \in 1 .. Len(inflight)
    /\ o \in {"non2xx", "rejected"}
    /\ setError(IF o = "non2xx" THEN HttpError ELSE NetworkError)
    /\ UNCHANGED <<idChanges, mounted, isStreaming, workflowId, workflowStatus,
                   expandedStep, polling, posts>>
    /\ Rerender(AfterResolve(i, FALSE), <<>>)
    /\ lastOp' = "fetchStatusFailed"
    /\ lastOutcome' = o
    /\ UNCHANGED <<libVars, viewVars, apiVars>>

\* ---- controls -------------------------------------------------------------
\* the Retry button of the error view: onClick={fetchStatus}
ManualRetry ==
    /\ mounted
    /\ ErrorView
    /\ UNCHANGED <<idChanges, mounted, isStreaming, workflowId, workflowStatus,
                   expandedStep, polling, error, posts>>
    /\ Rerender(inflight, <<NewFetch(workflowId)>>)
    /\ lastOp' = "manualRetry"
    /\ lastOutcome' = Null
    /\ UNCHANGED <<libVars, viewVars, apiVars>>

ToggleStep_Fetches(k) ==
    /\ mounted
    /\ MainView
    /\ k \in StepIndexes
    /\ setExpandedStep(IF expandedStep = k THEN NoStep ELSE k)
    /\ UNCHANGED <<idChanges, mounted, isStreaming, workflowId, workflowStatus,
                   polling, error, posts>>
    /\ Rerender(inflight, <<NewFetch(workflowId)>>)
    /\ lastOp' = "toggleStep"
    /\ lastOutcome' = Null
    /\ UNCHANGED <<libVars, viewVars, apiVars>>

\* onClick={() => setExpandedStep(isExpanded ? null : step.index)}
ToggleStep(k) ==
    /\ mounted
    /\ MainView
    /\ k \in StepIndexes
    /\ setExpandedStep(IF expandedStep = k THEN NoStep ELSE k)
    /\ UNCHANGED <<idChanges, mounted, isStreaming, workflowId, workflowStatus,
                   polling, error, posts>>
    /\ Rerender(inflight, <<>>)
    /\ lastOp' = "toggleStep"
    /\ lastOutcome' = Null
    /\ UNCHANGED <<libVars, viewVars, apiVars>>

\* handleCancel up to its await: the Cancel button shows while status is running
ClickCancel ==
    /\ mounted
    /\ MainView
    /\ status = "running"
    /\ Len(posts) < MaxCmds
    /\ posts' = Append(posts, [kind |-> "cancel", wf |-> workflowId])
    /\ UNCHANGED <<idChanges, mounted, isStreaming, workflowId, workflowStatus,
                   expandedStep, polling, error, intervalRef, timers, inflight>>
    /\ lastOp' = "clickCancel"
    /\ lastGets' = 0
    /\ lastOutcome' = Null
    /\ UNCHANGED <<libVars, viewVars, apiVars>>

\* handleRetry up to its await: the Retry buttons show while status is failed
ClickRetry ==
    /\ mounted
    /\ MainView
    /\ status = "failed"
    /\ Len(posts) < MaxCmds
    /\ posts' = Append(posts, [kind |-> "retry", wf |-> workflowId])
    /\ UNCHANGED <<idChanges, mounted, isStreaming, workflowId, workflowStatus,
                   expandedStep, polling, error, intervalRef, timers, inflight>>
    /\ lastOp' = "clickRetry"
    /\ lastGets' = 0
    /\ lastOutcome' = Null
    /\ UNCHANGED <<libVars, viewVars, apiVars>>

HandleCancelResumed_SetsError(i, o) ==
    /\ i \in 1 .. Len(posts)
    /\ posts[i].kind = "cancel"
    /\ o \in Outcomes
    /\ posts' = RemoveAt(posts, i)
    /\ IF o = "ok" THEN error' = error ELSE setError(NetworkError)
    /\ UNCHANGED <<idChanges, mounted, isStreaming, workflowId, workflowStatus,
                   expandedStep, polling>>
    /\ Rerender(inflight,
                IF o = "rejected" THEN <<>> ELSE <<NewFetch(posts[i].wf)>>)
    /\ lastOp' = "handleCancel"
    /\ lastOutcome' = o
    /\ UNCHANGED <<libVars, viewVars, apiVars>>

HandleCancelResumed_StopsPolling(i, o) ==
    /\ i \in 1 .. Len(posts)
    /\ posts[i].kind = "cancel"
    /\ o \in Outcomes
    /\ posts' = RemoveAt(posts, i)
    /\ IF o = "rejected" THEN polling' = polling ELSE setPolling(FALSE)
    /\ UNCHANGED <<idChanges, mounted, isStreaming, workflowId, workflowStatus,
                   expandedStep, error>>
    /\ Rerender(inflight,
                IF o = "rejected" THEN <<>> ELSE <<NewFetch(posts[i].wf)>>)
    /\ lastOp' = "handleCancel"
    /\ lastOutcome' = o
    /\ UNCHANGED <<libVars, viewVars, apiVars>>

\* handleCancel after its await: any response resumes it (response.ok is not
\* read) and it calls fetchStatus(); a rejected fetch goes to console.error
HandleCancelResumed(i, o) ==
    /\ i \in 1 .. Len(posts)
    /\ posts[i].kind = "cancel"
    /\ o \in Outcomes
    /\ posts' = RemoveAt(posts, i)
    /\ UNCHANGED <<idChanges, mounted, isStreaming, workflowId, workflowStatus,
                   expandedStep, polling, error>>
    /\ Rerender(inflight,
                IF o = "rejected" THEN <<>> ELSE <<NewFetch(posts[i].wf)>>)
    /\ lastOp' = "handleCancel"
    /\ lastOutcome' = o
    /\ UNCHANGED <<libVars, viewVars, apiVars>>

HandleRetryResumed_Optimistic(i, o) ==
    /\ i \in 1 .. Len(posts)
    /\ posts[i].kind = "retry"
    /\ o \in Outcomes
    /\ posts' = RemoveAt(posts, i)
    /\ IF o = "rejected" THEN polling' = polling ELSE setPolling(TRUE)
    /\ setWorkflowStatus(Payload(posts[i].wf, "running", NoReport))
    /\ UNCHANGED <<idChanges, mounted, isStreaming, workflowId, expandedStep,
                   error>>
    /\ Rerender(inflight,
                IF o = "rejected" THEN <<>> ELSE <<NewFetch(posts[i].wf)>>)
    /\ lastOp' = "handleRetry"
    /\ lastOutcome' = o
    /\ UNCHANGED <<libVars, viewVars, apiVars>>

\* handleRetry after its await: setPolling(true); fetchStatus()
HandleRetryResumed(i, o) ==
    /\ i \in 1 .. Len(posts)
    /\ posts[i].kind = "retry"
    /\ o \in Outcomes
    /\ posts' = RemoveAt(posts, i)
    /\ IF o = "rejected" THEN polling' = polling ELSE setPolling(TRUE)
    /\ UNCHANGED <<idChanges, mounted, isStreaming, workflowId, workflowStatus,
                   expandedStep, error>>
    /\ Rerender(inflight,
                IF o = "rejected" THEN <<>> ELSE <<NewFetch(posts[i].wf)>>)
    /\ lastOp' = "handleRetry"
    /\ lastOutcome' = o
    /\ UNCHANGED <<libVars, viewVars, apiVars>>

\* ---- specification ----------------------------------------------------------
Next ==
    \/ SetStreaming
    \/ SetWorkflowId
    \/ Unmount
    \/ TimerTick
    \/ \E i \in 1 .. MaxInflight, s \in Statuses : FetchStatusOk(i, s)
    \/ \E i \in 1 .. MaxInflight, o \in Outcomes : FetchStatusFailed(i, o)
    \/ ManualRetry
    \/ \E k \in StepIndexes : ToggleStep(k)
    \/ ClickCancel
    \/ ClickRetry
    \/ \E i \in 1 .. MaxCmds, o \in Outcomes : HandleCancelResumed(i, o)
    \/ \E i \in 1 .. MaxCmds, o \in Outcomes : HandleRetryResumed(i, o)

Spec == Init /\ [][Next]_vars

TypeOK ==
    /\ mounted \in BOOLEAN
    /\ isStreaming \in BOOLEAN
    /\ workflowId \in WfIds \cup {NoId}
    /\ \/ workflowStatus = NoStatus
       \/ workflowStatus \in [workflowId : WfIds \cup {NoId}, status : Statuses,
                              reportId : ReportIds]
    /\ expandedStep \in StepIndexes \cup {NoStep}
    /\ polling \in BOOLEAN
    /\ error \in {Null, HttpError, NetworkError}
    /\ Len(inflight) <= MaxInflight
    /\ Len(posts) <= MaxCmds

\* ---- claims ------------------------------------------------------------------
OvertakenCount(q) == Cardinality({j \in 1 .. Len(q) : q[j].overtaken})

\* polling goes from on to off only when a 2xx status response that carries
\* completed or failed is applied
StopsOnlyOnTerminal ==
    (polling /\ ~polling') => (lastOp' = "fetchStatusOk" /\ status' \in Terminal)

\* C1: once a completed or failed status is cached and polling is off, the
\* timer is gone and no operation issues a status GET (until a retry turns
\* polling on again)
C1_NoGetAfterSettled ==
    (mounted /\ status \in Terminal /\ ~polling) =>
        (lastGets = 0 /\ timers = {})

\* C2: the response of a status GET that a later-issued GET of the same
\* workflow has overtaken changes neither the cached status nor the polling
\* flag, so the cache ends with the most recently issued request
C2_LatestIssuedWins ==
    [][(mounted /\ lastOp' = "fetchStatusOk"
          /\ OvertakenCount(inflight') < OvertakenCount(inflight))
        => (workflowStatus' = workflowStatus /\ polling' = polling)]_vars

\* C3: no operation issues a status GET while the streaming flag is true
C3_NoGetWhileStreaming ==
    (mounted /\ isStreaming) => (lastGets = 0 /\ timers = {})

\* C4: polling is turned back on only by a retry whose POST succeeded, and it
\* is turned off again only by a fetched terminal status
C4_RetryReactivatesOnSuccess ==
    [][/\ (~polling /\ polling') =>
              (lastOp' = "handleRetry" /\ lastOutcome' = "ok")
       /\ StopsOnlyOnTerminal]_vars

\* C5: a cancel or retry whose POST succeeded is followed by exactly one
\* immediate status GET
C5_OneGetPerCommand ==
    (lastOp \in {"handleCancel", "handleRetry"} /\ lastOutcome = "ok") =>
        lastGets = 1

\* C6: a cancel action, at the click and when its POST resolves, leaves the
\* polling flag, the timer and its handle as they were; polling stops only
\* when a fetched status is completed or failed
C6_CancelKeepsPolling ==
    [][/\ lastOp' \in {"clickCancel", "handleCancel"} =>
              (polling' = polling /\ timers' = timers
                 /\ intervalRef' = intervalRef)
       /\ StopsOnlyOnTerminal]_vars

\* C6 witness: a cancel POST has resolved while the timer keeps polling
C6_Witness ==
    /\ lastOp = "handleCancel"
    /\ lastOutcome = "ok"
    /\ polling
    /\ timers # {}

\* C7: an operation whose request was answered non-2xx takes its failure path:
\* it issues no follow-up status GET
C7_Non2xxIsFailure ==
    lastOutcome = "non2xx" => lastGets = 0

\* C8: the cached status is written only when a status GET resolves 2xx
C8_StatusWrittenOnlyByFetch ==
    [][workflowStatus' # workflowStatus => lastOp' = "fetchStatusOk"]_vars

\* C8 witness: a retry POST has resolved while a status is cached
C8_Witness ==
    /\ lastOp = "handleRetry"
    /\ lastOutcome \in {"ok", "rejected"}
    /\ mounted
    /\ workflowStatus # NoStatus
    /\ workflowStatus.status = "failed"

\* C9: at most one timer is alive, and none after teardown, after settlement,
\* while streaming or without a workflow id
C9_TimerReleased ==
    /\ Cardinality(timers) <= 1
    /\ (~mounted \/ isStreaming \/ workflowId = NoId \/ ~polling) =>
           timers = {}

\* C9 witness: a timer was started and the component has been torn down
C9_Witness ==
    /\ ~mounted
    /\ intervalRef # 0
    /\ polling
    /\ ~isStreaming

InFlightFor(w) == {j \in 1 .. Len(inflight) : inflight[j].wf = w}

\* C11: for every workflow id at most one status GET is in flight
C11_SingleFlight ==
    \A w \in WfIds \cup {NoId} : Cardinality(InFlightFor(w)) <= 1

\* C12: each time streaming has ended and a workflow id is there (the stream
\* ended, or the id changed to a valid one), the step issues the initial
\* status GET and leaves the timer of that id running
C12_EntersPolling ==
    (/\ mounted
     /\ lastOp \in {"setStreaming", "setWorkflowId"}
     /\ ~isStreaming
     /\ workflowId # NoId) =>
        (/\ lastGets = 1
         /\ timers = {[id |-> intervalRef, wf |-> workflowId]})

\* operations that issue a status GET only through the polling effect
EffectOnlyOps ==
    {"setStreaming", "setWorkflowId", "fetchStatusOk", "fetchStatusFailed",
     "toggleStep"}

\* C13: while the workflow id is empty no timer is alive and the polling
\* effect issues no status GET
C13_NoPollingWithoutId ==
    (mounted /\ workflowId = NoId) =>
        (/\ timers = {}
         /\ lastOp \in EffectOnlyOps => lastGets = 0
         /\ lastGets <= 1)

\* C13 witness: the id became empty after a timer had been started for an
\* earlier id
C13_Witness ==
    /\ mounted
    /\ lastOp = "setWorkflowId"
    /\ workflowId = NoId
    /\ intervalRef # 0
    /\ polling
    /\ ~isStreaming

\* C14: a failed status GET sets the error state to the failure message and
\* leaves the cached status, the polling flag and the timer; it issues no GET
C14_FailedFetch ==
    [][(mounted /\ lastOp' = "fetchStatusFailed") =>
          (/\ error' = IF lastOutcome' = "non2xx" THEN HttpError
                                                  ELSE NetworkError
           /\ workflowStatus' = workflowStatus
           /\ polling' = polling
           /\ timers' = timers
           /\ lastGets' = 0)]_vars

\* C14 witness: a status GET failed while a status was cached and polling on
C14_Witness ==
    /\ mounted
    /\ lastOp = "fetchStatusFailed"
    /\ lastOutcome = "non2xx"
    /\ workflowStatus # NoStatus
    /\ polling
    /\ timers # {}

\* C15: whenever the error state is set and streaming has ended, the view is
\* the error view (message and Retry button)
C15_ErrorVisible ==
    (mounted /\ ~isStreaming /\ error # Null) => ErrorView

\* C20: a cancel, at the click and when its POST resolves, leaves the cached
\* status, the polling flag and the error state, so a second cancel leaves
\* what the first left
C20_CancelIdempotent ==
    [][lastOp' \in {"clickCancel", "handleCancel"} =>
          (/\ workflowStatus' = workflowStatus
           /\ polling' = polling
           /\ error' = error)]_vars

\* C20 witness: a cancel POST resolved non-2xx on a workflow whose cached
\* status is already failed
C20_Witness ==
    /\ mounted
    /\ lastOp = "handleCancel"
    /\ lastOutcome = "non2xx"
    /\ status = "failed"
    /\ ~polling

\* ==== WorkflowLibrary =========================================================
\* status: z.string() in the props schema: the four documented values and one
\* that is none of them
LibStatuses == Statuses \cup {"cancelled"}

LibIds == 1 .. NumWorkflows

\* the lists a list response or the initial props can carry
ListOf(S, f) ==
    LET all == [k \in LibIds |-> [id |-> k, status |-> f[k]]]
    IN  SelectSeq(all, LAMBDA w : w.id \in S)

Lists == {ListOf(S, f) : S \in SUBSET LibIds, f \in [LibIds -> LibStatuses]}

\* const safeWorkflows = workflows ?? []
safeWorkflows == workflows

activeWorkflows ==
    SelectSeq(safeWorkflows, LAMBDA w : w.status = "running" \/ w.status = "pending")

completedWorkflows ==
    SelectSeq(safeWorkflows, LAMBDA w : w.status = "completed")

failedWorkflows ==
    SelectSeq(safeWorkflows, LAMBDA w : w.status = "failed")

Elems(q) == {q[k] : k \in 1 .. Len(q)}

\* the spinner replaces the whole view
LoadingView == loading /\ Len(safeWorkflows) = 0

loadWorkflows_NoGuard ==
    /\ isLoadingRef' = TRUE
    /\ loading' = TRUE
    /\ listGets' = listGets + 1
    /\ listGets' <= MaxLoads
    /\ lastGets' = 1

\* loadWorkflows up to its await: if (isLoadingRef.current) return
loadWorkflows ==
    IF isLoadingRef
       THEN /\ UNCHANGED <<isLoadingRef, loading, listGets>>
            /\ lastGets' = 0
       ELSE /\ isLoadingRef' = TRUE
            /\ loading' = TRUE
            /\ listGets' = listGets + 1
            /\ listGets' <= MaxLoads
            /\ lastGets' = 1

\* handleRefresh: hasLoadedRef.current = false; loadWorkflows()
handleRefresh ==
    /\ hasLoadedRef' = FALSE
    /\ loadWorkflows

\* first render with the initial props, then the mount effect: neither ref is
\* set, so loadWorkflows() runs
InitLib ==
    /\ workflows \in Lists
    /\ loading = TRUE
    /\ hasLoadedRef = FALSE
    /\ isLoadingRef = TRUE
    /\ listGets = 1
    /\ deletes = <<>>
    /\ libPosts = <<>>
    /\ lastOp = "mount"
    /\ lastGets = 1
    /\ lastOutcome = Null
    /\ mounted = TRUE
    /\ isStreaming = TRUE
    /\ workflowId = NoId
    /\ workflowStatus = NoStatus
    /\ expandedStep = NoStep
    /\ polling = TRUE
    /\ error = Null
    /\ intervalRef = 0
    /\ timers = {}
    /\ inflight = <<>>
    /\ posts = <<>>
    /\ idChanges = 0
    /\ ViewIdle
    /\ ApiIdle

LoadResolved_NoFinally(o, l) ==
    /\ listGets > 0
    /\ o \in Outcomes
    /\ l \in Lists
    /\ listGets' = listGets - 1
    /\ workflows' = IF o = "ok" THEN l ELSE workflows
    /\ hasLoadedRef' = IF o = "ok" THEN TRUE ELSE hasLoadedRef
    /\ loading' = IF o = "ok" THEN FALSE ELSE loading
    /\ isLoadingRef' = IF o = "ok" THEN FALSE ELSE isLoadingRef
    /\ UNCHANGED <<deletes, libPosts>>
    /\ lastOp' = "loadResolved"
    /\ lastGets' = 0
    /\ lastOutcome' = o
    /\ UNCHANGED <<execVars, viewVars, apiVars>>

\* loadWorkflows after its await: response.ok sets the list and hasLoadedRef;
\* finally resets the loading flag and the guard
LoadResolved(o, l) ==
    /\ listGets > 0
    /\ o \in Outcomes
    /\ l \in Lists
    /\ listGets' = listGets - 1
    /\ workflows' = IF o = "ok" THEN l ELSE workflows
    /\ hasLoadedRef' = IF o = "ok" THEN TRUE ELSE hasLoadedRef
    /\ loading' = FALSE
    /\ isLoadingRef' = FALSE
    /\ UNCHANGED <<deletes, libPosts>>
    /\ lastOp' = "loadResolved"
    /\ lastGets' = 0
    /\ lastOutcome' = o
    /\ UNCHANGED <<execVars, viewVars, apiVars>>

\* a Refresh button: the header's is disabled while loading, the empty state's
\* shows only when not loading
ClickRefresh ==
    /\ ~loading
    /\ handleRefresh
    /\ UNCHANGED <<workflows, deletes, libPosts>>
    /\ lastOp' = "clickRefresh"
    /\ lastOutcome' = Null
    /\ UNCHANGED <<execVars, viewVars, apiVars>>

\* the trash button of a completed or failed card and Delete in the dialog:
\* handleDeleteWorkflow up to its await, with the list of that render
ConfirmDelete(id) ==
    /\ ~LoadingView
    /\ \E w \in Elems(completedWorkflows) \cup Elems(failedWorkflows) : w.id = id
    /\ Len(deletes) < MaxDeletes
    /\ deletes' = Append(deletes, [id |-> id, captured |-> safeWorkflows])
    /\ UNCHANGED <<workflows, loading, hasLoadedRef, isLoadingRef, listGets,
                   libPosts>>
    /\ lastOp' = "confirmDelete"
    /\ lastGets' = 0
    /\ lastOutcome' = Null
    /\ UNCHANGED <<execVars, viewVars, apiVars>>

DeleteResolved_IgnoresStatus(i, o) ==
    /\ i \in 1 .. Len(deletes)
    /\ o \in Outcomes
    /\ deletes' = RemoveAt(deletes, i)
    /\ workflows' = SelectSeq(deletes[i].captured, LAMBDA w : w.id # deletes[i].id)
    /\ UNCHANGED <<loading, hasLoadedRef, isLoadingRef, listGets, libPosts>>
    /\ lastOp' = "deleteResolved"
    /\ lastGets' = 0
    /\ lastOutcome' = o
    /\ UNCHANGED <<execVars, viewVars, apiVars>>

\* handleDeleteWorkflow after its await:
\* if (response.ok) setWorkflows(safeWorkflows.filter((w) => w.id !== workflowId))
DeleteResolved(i, o) ==
    /\ i \in 1 .. Len(deletes)
    /\ o \in Outcomes
    /\ deletes' = RemoveAt(deletes, i)
    /\ workflows' =
          IF o = "ok"
             THEN SelectSeq(deletes[i].captured, LAMBDA w : w.id # deletes[i].id)
             ELSE workflows
    /\ UNCHANGED <<loading, hasLoadedRef, isLoadingRef, listGets, libPosts>>
    /\ lastOp' = "deleteResolved"
    /\ lastGets' = 0
    /\ lastOutcome' = o
    /\ UNCHANGED <<execVars, viewVars, apiVars>>

\* Cancel on an active card: handleCancelWorkflow up to its await
ClickCancelWorkflow(id) ==
    /\ ~LoadingView
    /\ \E w \in Elems(activeWorkflows) : w.id = id
    /\ Len(libPosts) < MaxLibCmds
    /\ libPosts' = Append(libPosts, [kind |-> "cancel", id |-> id])
    /\ UNCHANGED <<workflows, loading, hasLoadedRef, isLoadingRef, listGets,
                   deletes>>
    /\ lastOp' = "clickCancelWorkflow"
    /\ lastGets' = 0
    /\ lastOutcome' = Null
    /\ UNCHANGED <<execVars, viewVars, apiVars>>

\* Retry on a failed card: handleRetryWorkflow up to its await
ClickRetryWorkflow(id) ==
    /\ ~LoadingView
    /\ \E w \in Elems(failedWorkflows) : w.id = id
    /\ Len(libPosts) < MaxLibCmds
    /\ libPosts' = Append(libPosts, [kind |-> "retry", id |-> id])
    /\ UNCHANGED <<workflows, loading, hasLoadedRef, isLoadingRef, listGets,
                   deletes>>
    /\ lastOp' = "clickRetryWorkflow"
    /\ lastGets' = 0
    /\ lastOutcome' = Null
    /\ UNCHANGED <<execVars, viewVars, apiVars>>

\* handleCancelWorkflow / handleRetryWorkflow after the await: any response
\* resumes it (response.ok is not read) and it calls handleRefresh()
CommandResumed(i, o) ==
    /\ i \in 1 .. Len(libPosts)
    /\ o \in Outcomes
    /\ libPosts' = RemoveAt(libPosts, i)
    /\ IF o = "rejected"
          THEN /\ UNCHANGED <<hasLoadedRef, isLoadingRef, loading, listGets>>
               /\ lastGets' = 0
          ELSE handleRefresh
    /\ UNCHANGED <<workflows, deletes>>
    /\ lastOutcome' = o
    /\ UNCHANGED <<execVars, viewVars, apiVars>>

HandleCancelWorkflowResumed(i, o) ==
    /\ i \in 1 .. Len(libPosts)
    /\ libPosts[i].kind = "cancel"
    /\ CommandResumed(i, o)
    /\ lastOp' = "handleCancelWorkflow"

HandleRetryWorkflowResumed(i, o) ==
    /\ i \in 1 .. Len(libPosts)
    /\ libPosts[i].kind = "retry"
    /\ CommandResumed(i, o)
    /\ lastOp' = "handleRetryWorkflow"

NextLib ==
    \/ \E o \in Outcomes, l \in Lists : LoadResolved(o, l)
    \/ ClickRefresh
    \/ \E id \in LibIds : ConfirmDelete(id)
    \/ \E i \in 1 .. MaxDeletes, o \in Outcomes : DeleteResolved(i, o)
    \/ \E id \in LibIds : ClickCancelWorkflow(id)
    \/ \E id \in LibIds : ClickRetryWorkflow(id)
    \/ \E i \in 1 .. MaxLibCmds, o \in Outcomes : HandleCancelWorkflowResumed(i, o)
    \/ \E i \in 1 .. MaxLibCmds, o \in Outcomes : HandleRetryWorkflowResumed(i, o)

SpecLib == InitLib /\ [][NextLib]_vars

\* fetch settles every request: each outstanding list GET is answered or rejected
SpecLibLive ==
    /\ InitLib
    /\ [][NextLib]_vars
    /\ WF_vars(\E o \in Outcomes, l \in Lists : LoadResolved(o, l))

\* C16: at most one list load is in flight; a load or refresh requested while
\* one is outstanding issues no GET and none is issued for it when the
\* outstanding load resolves
C16_SingleLoad ==
    /\ listGets <= 1
    /\ (lastOp = "loadResolved" => listGets = 0)

\* a card's command resumed while a load was outstanding: its refresh was dropped
C16_Witness ==
    /\ lastOp \in {"handleCancelWorkflow", "handleRetryWorkflow"}
    /\ lastOutcome # "rejected"
    /\ lastGets = 0
    /\ listGets = 1

\* C17: a delete changes the cached list only when its DELETE resolves with
\* success, and then the workflow is gone from it; at the click, and when the
\* DELETE resolves non-2xx or is rejected, the list is unchanged
C17_RemovedOnlyOnSuccess ==
    [][/\ lastOp' = "confirmDelete" => workflows' = workflows
       /\ (lastOp' = "deleteResolved" /\ lastOutcome' # "ok") =>
              workflows' = workflows
       /\ (lastOp' = "deleteResolved" /\ lastOutcome' = "ok") =>
              \E i \in 1 .. Len(deletes) :
                  /\ deletes' = RemoveAt(deletes, i)
                  /\ \A w \in Elems(workflows') : w.id # deletes[i].id]_vars

\* a DELETE answered non-2xx, with a deletable workflow still listed
C17_Witness ==
    /\ lastOp = "deleteResolved"
    /\ lastOutcome = "non2xx"
    /\ Elems(completedWorkflows) \cup Elems(failedWorkflows) # {}

Buckets == <<Elems(activeWorkflows), Elems(completedWorkflows), Elems(failedWorkflows)>>

\* C18: every workflow of the cached list is in exactly one of the active,
\* completed and failed buckets
C18_ExactlyOneBucket ==
    \A w \in Elems(safeWorkflows) :
        Cardinality({b \in 1 .. 3 : w \in Buckets[b]}) = 1

\* ==== progress display =======================================================
\* a step's status; an initial step may carry none
StepLists(vals) == UNION {[1 .. n -> vals] : n \in 0 .. MaxViewSteps}

Payloads ==
    [currentStep : 0 .. MaxViewSteps,
     totalSteps : 0 .. MaxViewSteps,
     steps : {[present |-> FALSE, list |-> <<>>]} \cup
             {[present |-> TRUE, list |-> l] : l \in StepLists(Statuses)}]

InitialStepLists == StepLists(Statuses \cup {Null})

\* WorkflowExecutor: steps = workflowStatus?.steps || initialSteps?.map(...) || []
steps(p, init) ==
    IF p.steps.present
       THEN p.steps.list
       ELSE [k \in 1 .. Len(init) |-> IF init[k] = Null THEN "pending" ELSE init[k]]

completedCount(p, init) ==
    Cardinality({k \in 1 .. Len(steps(p, init)) : steps(p, init)[k] = "completed"})

totalSteps(p, init) == Len(steps(p, init))

Min(a, b) == IF a < b THEN a ELSE b

\* Math.round of 100 * c / n for c, n >= 0
RoundPercent(c, n) == (200 * c + n) \div (2 * n)

\* the executor's header and the library's active card for one payload
View(p, init) ==
    [execStep |-> Min(completedCount(p, init) + 1, totalSteps(p, init)),
     execTotal |-> totalSteps(p, init),
     libStep |-> p.currentStep + 1,
     libTotal |-> p.totalSteps,
     libProgress |-> IF p.totalSteps > 0
                        THEN RoundPercent(p.currentStep, p.totalSteps)
                        ELSE 0]

\* before the first status: the executor has its initialSteps prop only
InitView ==
    /\ payload = NoPayload
    /\ initialSteps \in InitialStepLists
    /\ shown = NoView
    /\ lastOp = "init"
    /\ lastGets = 0
    /\ lastOutcome = Null
    /\ mounted = TRUE
    /\ isStreaming = TRUE
    /\ workflowId = NoId
    /\ workflowStatus = NoStatus
    /\ expandedStep = NoStep
    /\ polling = TRUE
    /\ error = Null
    /\ intervalRef = 0
    /\ timers = {}
    /\ inflight = <<>>
    /\ posts = <<>>
    /\ idChanges = 0
    /\ LibIdle
    /\ ApiIdle

\* a status payload arrives and both views render it
RenderStatus(p) ==
    /\ p \in Payloads
    /\ payload' = p
    /\ shown' = View(p, initialSteps)
    /\ UNCHANGED initialSteps
    /\ lastOp' = "renderStatus"
    /\ UNCHANGED <<lastGets, lastOutcome>>
    /\ UNCHANGED <<execVars, libVars, apiVars>>

NextView == \E p \in Payloads : RenderStatus(p)

SpecView == InitView /\ [][NextView]_vars

\* C19: for a payload with currentStep c and totalSteps n both headers show
\* step c+1 of n
C19_StepOneIndexed ==
    lastOp = "renderStatus" =>
        /\ shown.execStep = payload.currentStep + 1
        /\ shown.execTotal = payload.totalSteps
        /\ shown.libStep = payload.currentStep + 1
        /\ shown.libTotal = payload.totalSteps

C22_ReportReady ==
    /\ (/\ mounted
        /\ lastOp = "fetchStatusOk"
        /\ workflowStatus.status = "completed"
        /\ workflowStatus.reportId # NoReport)
          => (~polling /\ timers = {} /\ (~isStreaming => ReportReady))
    /\ (mounted /\ ~isStreaming)
          => (ReportReady <=> (/\ workflowStatus.status = "completed"
                               /\ workflowStatus.reportId # NoReport))

\* the poll that brought completed and r_9 has just been applied
C22_Witness ==
    /\ mounted
    /\ lastOp = "fetchStatusOk"
    /\ workflowStatus.status = "completed"
    /\ workflowStatus.reportId = "r_9"
    /\ ReportReady
    /\ ~polling

\* C24: whenever the polling flag is off the cached status is completed or failed
C24_SettledWhenNotPolling ==
    ~polling => workflowStatus.status \in Terminal

\* C28: a 2xx status response that changes the cached status or the polling
\* flag was fetched for the workflow id the view has now
C28_NoCrossWorkflowApply ==
    [][(/\ mounted
        /\ lastOp' = "fetchStatusOk"
        /\ (workflowStatus' # workflowStatus \/ polling' # polling))
          => workflowStatus'.workflowId = workflowId]_vars

\* ==== WorkflowLibrary: deletes, commands and loads under concurrency ==========
\* C25: a successful delete leaves the list as it was when the response came,
\* less the deleted workflow: what a reload or another delete put there in the
\* meantime is kept
C25_DeleteKeepsNewerList ==
    [][(lastOp' = "deleteResolved" /\ lastOutcome' = "ok") =>
          \E i \in 1 .. Len(deletes) :
              /\ deletes' = RemoveAt(deletes, i)
              /\ workflows' =
                    SelectSeq(workflows, LAMBDA w : w.id # deletes[i].id)]_vars

\* C26: a cancel or retry whose POST resolved (2xx or not) has issued a list GET
C26_RefreshAfterCommand ==
    (/\ lastOp \in {"handleCancelWorkflow", "handleRetryWorkflow"}
     /\ lastOutcome # "rejected") => lastGets = 1

\* C29: the step that settles a list load resets the guard and the loading
\* flag and, unless the answer is 2xx, leaves the list; so a set guard or
\* loading flag is always followed by a state where both are reset
C29_LoadAlwaysReleases ==
    /\ [][lastOp' = "loadResolved" =>
             /\ ~isLoadingRef'
             /\ ~loading'
             /\ lastOutcome' # "ok" => workflows' = workflows]_vars
    /\ (isLoadingRef \/ loading) ~> (~isLoadingRef /\ ~loading)

\* a rejected list GET has been settled and a refresh is possible again
C29_Witness ==
    /\ lastOp = "loadResolved"
    /\ lastOutcome = "rejected"
    /\ ~isLoadingRef
    /\ ~loading

\* C30: for a payload with 0 <= currentStep <= totalSteps both headers show a
\* step number that is at most the total, and the library's percentage is in
\* 0..100 and is 0 when totalSteps is 0
C30_StepWithinTotal ==
    (lastOp = "renderStatus" /\ payload.currentStep <= payload.totalSteps) =>
        /\ shown.execStep <= shown.execTotal
        /\ shown.libStep <= shown.libTotal
        /\ shown.libProgress \in 0 .. 100
        /\ payload.totalSteps = 0 => shown.libProgress = 0

\* ==== API routes: collections/[id], collections/[id]/items/[itemId], calendar/[id]
EventKinds == {"event.DELETE", "event.PATCH"}
PatchKinds == {"collection.PATCH", "event.PATCH"}

\* the requests a client can send: route, session user, path parameters, body
NewRequests ==
    LET Req(k, u, i, it, b) ==
            [kind |-> k, user |-> u, id |-> i, itemId |-> it, body |-> b,
             pc |-> "auth", items |-> <<>>, resp |-> 0]
        AnyUser == Users \cup {NoUser}
        CollBodies == {BadJson} \cup
                      {[NoBody EXCEPT !.name = n] : n \in {Undefined, "b"}}
        EventBodies == {BadJson} \cup
                       {[NoBody EXCEPT !.title = t, !.completed = c] :
                            t \in {Undefined, "t2"}, c \in {Undefined, "true"}}
    IN  {Req("collection.DELETE", u, i, 0, NoBody) : u \in AnyUser, i \in CollIds}
        \cup {Req("collection.PATCH", u, i, 0, b) :
                  u \in AnyUser, i \in CollIds, b \in CollBodies}
        \cup {Req("event.DELETE", u, i, 0, NoBody) : u \in AnyUser, i \in EventIds}
        \cup {Req("event.PATCH", u, i, 0, b) :
                  u \in AnyUser, i \in EventIds, b \in EventBodies}
        \cup {Req("item.DELETE", u, i, it, NoBody) :
                  u \in AnyUser, i \in CollIds, it \in ItemIds}

\* prisma.collection.findUnique / prisma.calendarEvent.findUnique
Row(q) == IF q.kind \in EventKinds THEN events[q.id] ELSE collections[q.id]

Respond(r, code) == requests' = [requests EXCEPT ![r].pc = "done", ![r].resp = code]

InitApi ==
    /\ ApiIdle
    /\ ExecIdle
    /\ LibIdle
    /\ ViewIdle
    /\ lastOp = "init"
    /\ lastGets = 0
    /\ lastOutcome = Null

\* a request reaches its route handler
Arrive(r, q) ==
    /\ requests[r].pc = "idle"
    /\ q \in NewRequests
    /\ requests' = [requests EXCEPT ![r] = q]
    /\ UNCHANGED <<collections, events>>
    /\ lastOp' = "arrive"
    /\ UNCHANGED <<lastGets, lastOutcome>>
    /\ UNCHANGED <<execVars, libVars, viewVars>>

\* getUser(): 401 without a user; ensureUserExists; PATCH then reads the body
\* (request.json() throws on a body that is not JSON: the catch answers 500)
Authenticate(r) ==
    /\ requests[r].pc = "auth"
    /\ IF requests[r].user = NoUser
          THEN Respond(r, 401)
          ELSE IF requests[r].kind \in PatchKinds /\ ~requests[r].body.valid
                  THEN Respond(r, 500)
                  ELSE requests' = [requests EXCEPT ![r].pc = "lookup"]
    /\ UNCHANGED <<collections, events>>
    /\ lastOp' = "authenticate"
    /\ UNCHANGED <<lastGets, lastOutcome>>
    /\ UNCHANGED <<execVars, libVars, viewVars>>

Lookup_NoOwnerCheck(r) ==
    /\ requests[r].pc = "lookup"
    /\ IF ~Row(requests[r]).present
          THEN Respond(r, 404)
          ELSE requests' = [requests EXCEPT ![r].pc = "write",
                                            ![r].items =
                                               IF requests[r].kind \in EventKinds
                                                  THEN <<>>
                                                  ELSE Row(requests[r]).items]
    /\ UNCHANGED <<collections, events>>
    /\ lastOp' = "lookup"
    /\ UNCHANGED <<lastGets, lastOutcome>>
    /\ UNCHANGED <<execVars, libVars, viewVars>>

\* findUnique, then 404 when there is no row and 403 when row.userId is not the
\* user's; the row read here is what the handler works with afterwards
Lookup(r) ==
    /\ requests[r].pc = "lookup"
    /\ IF ~Row(requests[r]).present
          THEN Respond(r, 404)
          ELSE IF Row(requests[r]).userId # requests[r].user
                  THEN Respond(r, 403)
                  ELSE requests' = [requests EXCEPT ![r].pc = "write",
                                                    ![r].items =
                                                       IF requests[r].kind \in EventKinds
                                                          THEN <<>>
                                                          ELSE Row(requests[r]).items]
    /\ UNCHANGED <<collections, events>>
    /\ lastOp' = "lookup"
    /\ UNCHANGED <<lastGets, lastOutcome>>
    /\ UNCHANGED <<execVars, libVars, viewVars>>

\* body.x !== undefined && { x: body.x }
Patched(old, new) == IF new # Undefined THEN new ELSE old

\* what the row is after the handler's prisma call
Written(q) ==
    CASE q.kind = "collection.DELETE" -> NoCollection
      [] q.kind = "collection.PATCH" ->
            [collections[q.id] EXCEPT !.name = Patched(@, q.body.name)]
      [] q.kind = "item.DELETE" ->
            [collections[q.id] EXCEPT
                !.items = SelectSeq(q.items, LAMBDA it : it # q.itemId)]
      [] q.kind = "event.DELETE" -> NoEvent
      [] q.kind = "event.PATCH" ->
            [events[q.id] EXCEPT !.title = Patched(@, q.body.title),
                                 !.completed = Patched(@, q.body.completed)]

\* prisma delete / update by id: it throws when the row is gone (the catch
\* answers 500), else the row is written and the answer is 200
Write(r) ==
    /\ requests[r].pc = "write"
    /\ IF ~Row(requests[r]).present
          THEN /\ Respond(r, 500)
               /\ UNCHANGED <<collections, events>>
          ELSE /\ Respond(r, 200)
               /\ IF requests[r].kind \in EventKinds
                     THEN /\ events' = [events EXCEPT ![requests[r].id] = Written(requests[r])]
                          /\ UNCHANGED collections
                     ELSE /\ collections' =
                                [collections EXCEPT ![requests[r].id] = Written(requests[r])]
                          /\ UNCHANGED events
    /\ lastOp' = "write"
    /\ UNCHANGED <<lastGets, lastOutcome>>
    /\ UNCHANGED <<execVars, libVars, viewVars>>

NextApi ==
    \/ \E r \in Slots, q \in NewRequests : Arrive(r, q)
    \/ \E r \in Slots : Authenticate(r)
    \/ \E r \in Slots : Lookup(r)
    \/ \E r \in Slots : Write(r)

SpecApi == InitApi /\ [][NextApi]_vars

\* ---- claims about the API routes ---------------------------------------------
\* request r gets its answer in this step
Answered(r) == requests[r].pc \notin {"idle", "done"} /\ requests'[r].pc = "done"

StoreChanged == <<collections, events>>' # <<collections, events>>

\* the stored rows change only in the step that answers a request of the
\* row's owner with 200
OnlyOwnerWrites ==
    /\ StoreChanged =>
          \E r \in Slots :
              /\ Answered(r)
              /\ requests'[r].resp = 200
              /\ requests[r].user # NoUser
              /\ Row(requests[r]).present
              /\ Row(requests[r]).userId = requests[r].user
    /\ \A r \in Slots :
          (Answered(r) /\ requests'[r].resp # 200) => ~StoreChanged

BadBody(q) == q.pc = "auth" /\ q.kind \in PatchKinds /\ ~q.body.valid

C27_BothItemsGone ==
    \A r1, r2 \in Slots :
        (/\ r1 # r2
         /\ requests[r1].kind = "item.DELETE"
         /\ requests[r2].kind = "item.DELETE"
         /\ requests[r1].id = requests[r2].id
         /\ requests[r1].itemId # requests[r2].itemId
         /\ requests[r1].resp = 200
         /\ requests[r2].resp = 200
         /\ collections[requests[r1].id].present)
          => \A k \in 1 .. Len(collections[requests[r1].id].items) :
                collections[requests[r1].id].items[k]
                    \notin {requests[r1].itemId, requests[r2].itemId}

====
